---------------------------- MODULE Spec2Model ----------------------------
(***************************************************************************)
(* A model of quantpy's Channel (src/quantpy/channel.py) and Tomograph     *)
(* (src/quantpy/tomography.py).                                            *)
(*                                                                         *)
(* Matrices are sequences of rows; entries of Channel matrices are         *)
(* Gaussian integers <<re, im>> (exact complex arithmetic).                *)
(***************************************************************************)
EXTENDS Integers, Sequences, FiniteSets, TLC

VARIABLES
    types,      \* Channel._types : the set of valid representations
    func,       \* Channel._func  : name of the stored callable, or NoFunc
    choi,       \* Channel._choi  : the stored Choi matrix, or NoMatrix
    n_qubits,   \* Channel.n_qubits
    lastOp,     \* the Channel operation performed last
    arg,        \* the state given to it, when it is transform
    ret,        \* what that operation returned (or the error it raised)
    invoked,    \* the callables that operation invoked
    lastSet,    \* history: what the latest constructor / setter was given
    nReads,     \* history: choi getter calls since the latest constructor / setter (capped)
    lastRead    \* history: the matrix the latest successful getter call returned since then

chanVars == <<types, func, choi, n_qubits, lastOp, arg, ret, invoked, lastSet, nReads, lastRead>>

VARIABLES
    state,          \* Tomograph.state : the true state's Bloch vector
    dst,            \* Tomograph.dst
    experimented,   \* whether POVM_matrix, results and n_measurements exist
    POVM_matrix,    \* Tomograph.POVM_matrix
    results,        \* Tomograph.results
    n_measurements, \* Tomograph.n_measurements
    tLastOp,        \* the Tomograph operation performed last
    tArgs,          \* its arguments (and, for experiment, the outcomes drawn)
    tRet,           \* what it returned (or the error it raised)
    log             \* history: the successful experiment calls since the latest fresh one

tomoVars ==
    <<state, dst, experimented, POVM_matrix, results, n_measurements, tLastOp, tArgs, tRet, log>>

vars == <<chanVars, tomoVars>>

(***************************************************************************)
(* Bounds                                                                  *)
(***************************************************************************)
MaxQubits == 1
\* the most experiment calls plus measurements merged into one accumulation
MaxWork == 4

QubitCounts == 0..MaxQubits

(***************************************************************************)
(* Complex numbers and matrices (numpy / Qobj algebra)                     *)
(***************************************************************************)
CZero == <<0, 0>>
COne == <<1, 0>>
CI == <<0, 1>>

CAdd(a, b) == <<a[1] + b[1], a[2] + b[2]>>
CMul(a, b) == <<a[1] * b[1] - a[2] * b[2], a[1] * b[2] + a[2] * b[1]>>
CConj(a) == <<a[1], 0 - a[2]>>

RECURSIVE Pow(_, _)
Pow(b, e) == IF e = 0 THEN 1 ELSE b * Pow(b, e - 1)

RECURSIVE Log2Floor(_)
Log2Floor(d) == IF d <= 1 THEN 0 ELSE 1 + Log2Floor(d \div 2)

RECURSIVE CSum(_, _)
\* sum of f[1] .. f[k]
CSum(f, k) == IF k = 0 THEN CZero ELSE CAdd(CSum(f, k - 1), f[k])

Side(A) == Len(A)

MatZero(d) == [i \in 1..d |-> [j \in 1..d |-> CZero]]
MatEye(d) == [i \in 1..d |-> [j \in 1..d |-> IF i = j THEN COne ELSE CZero]]
MatAdd(A, B) == [i \in 1..Side(A) |-> [j \in 1..Side(A) |-> CAdd(A[i][j], B[i][j])]]
MatMul(A, B) ==
    [i \in 1..Side(A) |-> [j \in 1..Side(A) |->
        CSum([k \in 1..Side(A) |-> CMul(A[i][k], B[k][j])], Side(A))]]
MatScale(c, A) == [i \in 1..Side(A) |-> [j \in 1..Side(A) |-> CMul(c, A[i][j])]]
MatT(A) == [i \in 1..Side(A) |-> [j \in 1..Side(A) |-> A[j][i]]]
MatConj(A) == [i \in 1..Side(A) |-> [j \in 1..Side(A) |-> CConj(A[i][j])]]
MatH(A) == [i \in 1..Side(A) |-> [j \in 1..Side(A) |-> CConj(A[j][i])]]
MatTrace(A) == CSum([k \in 1..Side(A) |-> A[k][k]], Side(A))

\* routines.kron : Kronecker product
Kron(A, B) ==
    LET da == Side(A)
        db == Side(B)
    IN  [r \in 1..(da * db) |-> [c \in 1..(da * db) |->
            CMul(A[((r - 1) \div db) + 1][((c - 1) \div db) + 1],
                 B[((r - 1) % db) + 1][((c - 1) % db) + 1])]]

\* Qobj.ptrace(range(n, 2n)) on an operator of 2n qubits: the first n qubits
\* are traced out, the operator on the last n qubits is kept; d = 2^n
PtraceKeepLast(X, d) ==
    [k \in 1..d |-> [l \in 1..d |->
        CSum([i \in 1..d |-> X[(i - 1) * d + k][(i - 1) * d + l]], d)]]

\* routines.generate_single_entries(dim) : one operator per ordered pair of
\* basis indices, row-major
SingleEntry(d, a, b) ==
    [i \in 1..d |-> [j \in 1..d |-> IF i = a /\ j = b THEN COne ELSE CZero]]
SingleEntries(d) ==
    [k \in 1..(d * d) |-> SingleEntry(d, ((k - 1) \div d) + 1, ((k - 1) % d) + 1)]


(***************************************************************************)
(* Values                                                                  *)
(***************************************************************************)
NoFunc == "None"
NoMatrix == <<>>
\* n_qubits=None, the constructor's default
NoQubits == -1

\* The callables given to a Channel.  All are defined for every dimension.
\*   id          s |-> s
\*   i_transpose s |-> i * s^T  (linear, not completely positive)
\*   depol       s |-> Tr(s) * I (linear, not trace preserving)
\*   conj        s |-> entrywise conjugate (antilinear, hence not linear)
\*   partial     s |-> s, raising when the top-left entry of s is zero
LinearFuncs == {"id", "i_transpose", "depol"}
Funcs == LinearFuncs \cup {"conj", "partial"}

Raised == [ok |-> FALSE, val |-> NoMatrix]
Returned(m) == [ok |-> TRUE, val |-> m]

\* self._func(state)
ApplyFunc(f, s) ==
    CASE f = "id" -> Returned(s)
      [] f = "i_transpose" -> Returned(MatScale(CI, MatT(s)))
      [] f = "depol" -> Returned(MatScale(MatTrace(s), MatEye(Side(s))))
      [] f = "conj" -> Returned(MatConj(s))
      [] f = "partial" -> IF s[1][1] = CZero THEN Raised ELSE Returned(s)
      [] OTHER -> Raised

\* a matrix whose entries all differ
Generic(d) == [i \in 1..d |-> [j \in 1..d |-> <<i, j>>]]
MatOnes(d) == [i \in 1..d |-> [j \in 1..d |-> COne]]

\* the states given to transform, of side d
InputStates(d) ==
    {SingleEntry(d, 1, 1), SingleEntry(d, 1, d), MatOnes(d), Generic(d)}

\* the matrices given as Choi matrices (side a power of 4)
ChoiInputs == {Generic(Pow(4, n)) : n \in QubitCounts}

\* what a constructor is given: a callable, an array, something else, and
\* n_qubits or nothing; one array is of a side that is no power of 4
ArrayInputs == ChoiInputs \cup {Generic(Pow(4, n) * 2) : n \in QubitCounts \ {MaxQubits}}

FuncData(f) == [kind |-> "func", f |-> f, m |-> NoMatrix]
MatrixData(m) == [kind |-> "matrix", f |-> NoFunc, m |-> m]
OtherData == [kind |-> "other", f |-> NoFunc, m |-> NoMatrix]

NoChannel == [types |-> {}, func |-> NoFunc, choi |-> NoMatrix, n_qubits |-> 0]

NoReturn == [kind |-> "none", mat |-> NoMatrix, ch |-> NoChannel]
ErrorReturn == [kind |-> "error", mat |-> NoMatrix, ch |-> NoChannel]
\* the constructor's ValueError, with its message
ValueErrorReturn(msg) == [kind |-> "ValueError", mat |-> NoMatrix, ch |-> NoChannel, msg |-> msg]
StateReturn(m) == [kind |-> "state", mat |-> m, ch |-> NoChannel]
ChoiReturn(m) == [kind |-> "choi", mat |-> m, ch |-> NoChannel]
ChannelReturn(c) == [kind |-> "channel", mat |-> NoMatrix, ch |-> c]

(***************************************************************************)
(* Channel                                                                 *)
(***************************************************************************)
\* int(np.log2(data.shape[0]) / 2)
NQubitsOf(side) == Log2Floor(side) \div 2

\* the ValueError raised: '`n_qubits` argument is compulsory when using init with
\* function', 'Invalid data format'
NoError == "none"
CompulsoryError == "n_qubits is compulsory"
FormatError == "invalid data format"

\* a constructor that takes a callable without n_qubits
ChannelInitNoCheck(data, n) ==
    IF data.kind = "func"
    THEN [ok |-> TRUE, err |-> NoError,
          ch |-> [types |-> {"func"}, func |-> data.f, choi |-> NoMatrix, n_qubits |-> n]]
    ELSE IF data.kind = "matrix"
    THEN [ok |-> TRUE, err |-> NoError,
          ch |-> [types |-> {"choi"}, func |-> NoFunc, choi |-> data.m,
                  n_qubits |-> NQubitsOf(Side(data.m))]]
    ELSE [ok |-> FALSE, err |-> FormatError, ch |-> NoChannel]

\* Channel.__init__
ChannelInit(data, n) ==
    IF data.kind = "func"
    THEN IF n = NoQubits
         THEN [ok |-> FALSE, err |-> CompulsoryError, ch |-> NoChannel]
         ELSE [ok |-> TRUE, err |-> NoError,
               ch |-> [types |-> {"func"}, func |-> data.f, choi |-> NoMatrix, n_qubits |-> n]]
    ELSE IF data.kind = "matrix"
    THEN [ok |-> TRUE, err |-> NoError,
          ch |-> [types |-> {"choi"}, func |-> NoFunc, choi |-> data.m,
                  n_qubits |-> NQubitsOf(Side(data.m))]]
    ELSE [ok |-> FALSE, err |-> FormatError, ch |-> NoChannel]

\* set_func without self._types.discard('choi')
SetFuncKeepChoi(c, f, n) ==
    [c EXCEPT !.types = @ \cup {"func"}, !.func = f, !.n_qubits = n]

\* Channel.set_func
SetFuncOp(c, f, n) ==
    [c EXCEPT !.types = (@ \cup {"func"}) \ {"choi"}, !.func = f, !.n_qubits = n]

\* a setter that keeps the qubit count
SetChoiKeepQubits(c, m) ==
    [c EXCEPT !.types = (@ \cup {"choi"}) \ {"func"}, !.choi = m]

\* Channel.choi (setter)
SetChoiOp(c, m) ==
    [c EXCEPT !.types = (@ \cup {"choi"}) \ {"func"}, !.choi = m,
              !.n_qubits = NQubitsOf(Side(m))]

\* The result of an operation on channel c: the channel afterwards, the value
\* returned (when ok), the callables invoked and whether the getter ran.
OpResult(ok, c, m, inv, rd) == [ok |-> ok, c |-> c, mat |-> m, invoked |-> inv, read |-> rd]

RECURSIVE Getter(_)
RECURSIVE TransformOp(_, _)
RECURSIVE ChoiAccum(_, _, _)

\* a loop that assigns instead of accumulating: self._choi = kron(...)
ChoiAccumAssign(c, entries, k) ==
    IF k > Len(entries)
    THEN OpResult(TRUE, c, c.choi, {}, TRUE)
    ELSE LET t == TransformOp(c, entries[k])
         IN  IF ~t.ok
             THEN OpResult(FALSE, t.c, NoMatrix, t.invoked, TRUE)
             ELSE LET next == ChoiAccum([t.c EXCEPT !.choi = Kron(entries[k], t.mat)],
                                        entries, k + 1)
                  IN  OpResult(next.ok, next.c, next.mat, t.invoked \cup next.invoked, TRUE)

\* the loop of the getter: self._choi += kron(Qobj(single_entry), self.transform(single_entry))
ChoiAccum(c, entries, k) ==
    IF k > Len(entries)
    THEN OpResult(TRUE, c, c.choi, {}, TRUE)
    ELSE LET t == TransformOp(c, entries[k])
         IN  IF ~t.ok
             THEN OpResult(FALSE, t.c, NoMatrix, t.invoked, TRUE)
             ELSE LET next == ChoiAccum([t.c EXCEPT !.choi = MatAdd(@, Kron(entries[k], t.mat))],
                                        entries, k + 1)
                  IN  OpResult(next.ok, next.c, next.mat, t.invoked \cup next.invoked, TRUE)

\* Channel.choi (getter), the branch that builds the matrix
BuildChoi(c) ==
    ChoiAccum([c EXCEPT !.types = @ \cup {"choi"}, !.choi = MatZero(Pow(4, c.n_qubits))],
              SingleEntries(Pow(2, c.n_qubits)), 1)

\* BuildChoi of the channels that hold a function only; the matrix stored before
\* is overwritten, so the result depends on the function and the qubit count alone
Built ==
    [f \in Funcs, n \in QubitCounts |->
        BuildChoi([types |-> {"func"}, func |-> f, choi |-> NoMatrix, n_qubits |-> n])]

\* a getter that rebuilds the matrix whenever a function is valid
GetterNoCache(c) ==
    IF "func" \in c.types
    THEN BuildChoi(c)
    ELSE OpResult(TRUE, c, c.choi, {}, TRUE)

\* Channel.choi (getter)
Getter(c) ==
    IF "choi" \notin c.types
    THEN IF c.types = {"func"} /\ c.func \in Funcs /\ c.n_qubits \in QubitCounts
         THEN Built[c.func, c.n_qubits]
         ELSE BuildChoi(c)
    ELSE OpResult(TRUE, c, c.choi, {}, TRUE)

\* transform choosing the function whenever one is stored, valid or not
TransformStoredFunc(c, s) ==
    IF c.func # NoFunc
    THEN LET r == ApplyFunc(c.func, s)
         IN  OpResult(r.ok, c, r.val, {c.func}, FALSE)
    ELSE LET common == Kron(MatT(s), MatEye(Pow(2, c.n_qubits)))
             g == Getter(c)
         IN  IF ~g.ok \/ Side(common) # Side(g.mat)
             THEN OpResult(FALSE, g.c, NoMatrix, g.invoked, TRUE)
             ELSE OpResult(TRUE, g.c,
                           PtraceKeepLast(MatMul(common, g.mat), Pow(2, c.n_qubits)),
                           g.invoked, TRUE)

\* transform whose Choi branch takes the state untransposed
TransformNoTranspose(c, s) ==
    IF "func" \in c.types
    THEN LET r == ApplyFunc(c.func, s)
         IN  OpResult(r.ok, c, r.val, {c.func}, FALSE)
    ELSE LET common == Kron(s, MatEye(Pow(2, c.n_qubits)))
             g == Getter(c)
         IN  IF ~g.ok \/ Side(common) # Side(g.mat)
             THEN OpResult(FALSE, g.c, NoMatrix, g.invoked, TRUE)
             ELSE OpResult(TRUE, g.c,
                           PtraceKeepLast(MatMul(common, g.mat), Pow(2, c.n_qubits)),
                           g.invoked, TRUE)

\* Channel.transform
TransformOp(c, s) ==
    IF "func" \in c.types
    THEN LET r == ApplyFunc(c.func, s)
         IN  OpResult(r.ok, c, r.val, {c.func}, FALSE)
    ELSE LET common == Kron(MatT(s), MatEye(Pow(2, c.n_qubits)))
             g == Getter(c)
         IN  IF ~g.ok \/ Side(common) # Side(g.mat)
             THEN OpResult(FALSE, g.c, NoMatrix, g.invoked, TRUE)
             ELSE OpResult(TRUE, g.c,
                           PtraceKeepLast(MatMul(common, g.mat), Pow(2, c.n_qubits)),
                           g.invoked, TRUE)

\* T, H and conj that assign the changed matrix to the channel itself and
\* return it
DerivedInPlace(c, op) ==
    LET g == Getter(c)
    IN  IF ~g.ok
        THEN [ok |-> FALSE, c |-> g.c, new |-> NoChannel, invoked |-> g.invoked]
        ELSE LET m == CASE op = "T" -> MatT(g.mat)
                        [] op = "H" -> MatH(g.mat)
                        [] OTHER -> MatConj(g.mat)
             IN  [ok |-> TRUE, c |-> SetChoiOp(g.c, m), new |-> SetChoiOp(g.c, m),
                  invoked |-> g.invoked]

\* Channel.T, Channel.H, Channel.conj : self.__class__(<the Choi matrix changed>)
DerivedOp(c, op) ==
    LET g == Getter(c)
    IN  IF ~g.ok
        THEN [ok |-> FALSE, c |-> g.c, new |-> NoChannel, invoked |-> g.invoked]
        ELSE LET m == CASE op = "T" -> MatT(g.mat)
                        [] op = "H" -> MatH(g.mat)
                        [] OTHER -> MatConj(g.mat)
                 made == ChannelInit(MatrixData(m), NoQubits)
             IN  [ok |-> made.ok, c |-> g.c, new |-> made.ch, invoked |-> g.invoked]


\* what a constructor or setter was given
GivenFunc(f) == [rep |-> "func", f |-> f, m |-> NoMatrix]
GivenChoi(m) == [rep |-> "choi", f |-> NoFunc, m |-> m]

\* the channel object as a record
Ch == [types |-> types, func |-> func, choi |-> choi, n_qubits |-> n_qubits]

Store(c) ==
    /\ types' = c.types
    /\ func' = c.func
    /\ choi' = c.choi
    /\ n_qubits' = c.n_qubits

Bump(n) == IF n >= 2 THEN 2 ELSE n + 1

\* history after an operation that may have called the getter
AfterRead(r) ==
    /\ nReads' = IF r.read THEN Bump(nReads) ELSE nReads
    /\ lastRead' = IF r.read /\ r.ok THEN r.c.choi ELSE lastRead
    /\ UNCHANGED lastSet

\* ch = Channel(f, n)  or  ch = Channel(matrix)
InitChannel ==
    \E made \in {ChannelInit(FuncData(f), n) : f \in Funcs, n \in QubitCounts}
                \cup {ChannelInit(MatrixData(m), NoQubits) : m \in ChoiInputs} :
        /\ made.ok
        /\ types = made.ch.types
        /\ func = made.ch.func
        /\ choi = made.ch.choi
        /\ n_qubits = made.ch.n_qubits
        /\ lastOp = "init"
        /\ arg = NoMatrix
        /\ ret = NoReturn
        /\ invoked = {}
        /\ lastSet = IF "func" \in made.ch.types
                     THEN GivenFunc(made.ch.func) ELSE GivenChoi(made.ch.choi)
        /\ nReads = 0
        /\ lastRead = NoMatrix

\* ch.set_func(f, n)
SetFunc ==
    \E f \in Funcs, n \in QubitCounts :
        /\ Store(SetFuncOp(Ch, f, n))
        /\ lastOp' = "set_func"
        /\ arg' = NoMatrix
        /\ ret' = NoReturn
        /\ invoked' = {}
        /\ lastSet' = GivenFunc(f)
        /\ nReads' = 0
        /\ lastRead' = NoMatrix
        /\ UNCHANGED tomoVars

\* ch.choi = m : a given matrix, or the matrix a read has just returned
ChoiAssign ==
    \E m \in ChoiInputs \cup (IF ret.kind = "choi" THEN {ret.mat} ELSE {}) :
        /\ Store(SetChoiOp(Ch, m))
        /\ lastOp' = "choi_assign"
        /\ arg' = NoMatrix
        /\ ret' = NoReturn
        /\ invoked' = {}
        /\ lastSet' = GivenChoi(m)
        /\ nReads' = 0
        /\ lastRead' = NoMatrix
        /\ UNCHANGED tomoVars

\* ch.choi
ChoiRead ==
    LET g == Getter(Ch)
    IN  /\ Store(g.c)
        /\ lastOp' = "choi_read"
        /\ arg' = NoMatrix
        /\ ret' = IF g.ok THEN ChoiReturn(g.mat) ELSE ErrorReturn
        /\ invoked' = g.invoked
        /\ AfterRead(g)
        /\ UNCHANGED tomoVars

\* ch.transform(s)
Transform ==
    \E s \in InputStates(Pow(2, n_qubits)) :
        LET t == TransformOp(Ch, s)
        IN  /\ Store(t.c)
            /\ lastOp' = "transform"
            /\ arg' = s
            /\ ret' = IF t.ok THEN StateReturn(t.mat) ELSE ErrorReturn
            /\ invoked' = t.invoked
            /\ AfterRead(t)
            /\ UNCHANGED tomoVars

\* ch.T, ch.H, ch.conj()
Derive ==
    \E op \in {"T", "H", "conj"} :
        \E d \in {DerivedOp(Ch, op)} :
            /\ Store(d.c)
            /\ lastOp' = op
            /\ arg' = NoMatrix
            /\ ret' = IF d.ok THEN ChannelReturn(d.new) ELSE ErrorReturn
            /\ invoked' = d.invoked
            /\ AfterRead([ok |-> d.ok, c |-> d.c, read |-> TRUE])
            /\ UNCHANGED tomoVars

\* ch = <the channel T, H or conj has just returned> : the caller goes on with it
Rebind ==
    /\ ret.kind = "channel"
    /\ lastOp \in {"T", "H", "conj"}
    /\ Store(ret.ch)
    /\ lastOp' = "rebind"
    /\ arg' = NoMatrix
    /\ ret' = NoReturn
    /\ invoked' = {}
    /\ lastSet' = GivenChoi(ret.ch.choi)
    /\ nReads' = 0
    /\ lastRead' = NoMatrix
    /\ UNCHANGED tomoVars

\* Channel(data, n_qubits) once more : another object, or the error; the
\* channel at hand is left alone
ConstructChannel ==
    \E data \in {FuncData(f) : f \in {"id", "partial"}}
                \cup {MatrixData(m) : m \in ArrayInputs} \cup {OtherData},
       n \in QubitCounts \cup {NoQubits} :
        \E made \in {ChannelInit(data, n)} :
            /\ lastOp' = "construct"
            /\ arg' = [data |-> data, n_qubits |-> n]
            /\ ret' = IF made.ok THEN ChannelReturn(made.ch) ELSE ValueErrorReturn(made.err)
            /\ invoked' = {}
            /\ UNCHANGED <<types, func, choi, n_qubits, lastSet, nReads, lastRead>>
            /\ UNCHANGED tomoVars

NextChannel ==
    \/ ConstructChannel
    \/ SetFunc
    \/ ChoiAssign
    \/ ChoiRead
    \/ Transform
    \/ Derive
    \/ Rebind


(***************************************************************************)
(* Real numbers of the Tomograph: floats as exact fractions <<p, q>> in    *)
(* lowest terms with q > 0; <<0, 0>> is nan, <<1, 0>> and <<-1, 0>> are    *)
(* inf and -inf (numpy's results of dividing by zero).                     *)
(***************************************************************************)
Abs(x) == IF x < 0 THEN 0 - x ELSE x
Sign(x) == IF x < 0 THEN -1 ELSE IF x > 0 THEN 1 ELSE 0

RECURSIVE GCD(_, _)
GCD(a, b) == IF b = 0 THEN a ELSE GCD(b, a % b)

RNorm(p, q) ==
    IF q = 0
    THEN <<Sign(p), 0>>
    ELSE LET g == GCD(Abs(p), Abs(q))
         IN  <<(Sign(q) * p) \div g, Abs(q) \div g>>

RZero == <<0, 1>>
RNaN == <<0, 0>>
RInt(k) == <<k, 1>>
RMul(a, b) == RNorm(a[1] * b[1], a[2] * b[2])
RDiv(a, b) == RNorm(a[1] * b[2], a[2] * b[1])
RAdd(a, b) ==
    IF a[2] = 0 \/ b[2] = 0
    THEN (IF a = RNaN \/ b = RNaN \/ (a[2] = 0 /\ b[2] = 0 /\ a # b) THEN RNaN
          ELSE IF a[2] = 0 THEN a ELSE b)
    ELSE RNorm(a[1] * b[2] + b[1] * a[2], a[2] * b[2])

RECURSIVE RSum(_, _)
RSum(f, k) == IF k = 0 THEN RZero ELSE RAdd(RSum(f, k - 1), f[k])

RECURSIVE IntSum(_, _)
IntSum(f, k) == IF k = 0 THEN 0 ELSE IntSum(f, k - 1) + f[k]

\* array * scalar, array / scalar, matrix @ vector, np.vstack, np.hstack
ArrScale(M, k) == [i \in 1..Len(M) |-> [j \in 1..Len(M[i]) |-> RMul(M[i][j], RInt(k))]]
ArrDiv(M, k) == [i \in 1..Len(M) |-> [j \in 1..Len(M[i]) |-> RDiv(M[i][j], RInt(k))]]
MatVec(M, v) ==
    [i \in 1..Len(M) |-> RSum([j \in 1..Len(v) |-> RMul(M[i][j], v[j])], Len(v))]
VecScale(v, k) == [i \in 1..Len(v) |-> RMul(v[i], RInt(k))]
VStack(A, B) == A \o B
HStack(a, b) == a \o b

(***************************************************************************)
(* Tomograph                                                               *)
(***************************************************************************)
\* the true state given (state.dim qubits, state.bloch): |+x><+x|
StateInputs ==
    {[dim |-> 1, bloch |-> <<<<1, 2>>, <<1, 2>>, <<0, 1>>, <<0, 1>>>>]}

\* dst arguments: names, and a scoring function given directly
DstNames == {"hs", "trace", "if"}
StrDst(name) == [isStr |-> TRUE, name |-> name]
CallableDst == [isStr |-> FALSE, name |-> "custom"]
DstInputs == {StrDst("hs"), StrDst("trace"), StrDst("if"), StrDst("euclid"), CallableDst}

\* Tomograph.__init__ : the dst chosen, or the error
TomographInit(d) ==
    IF d.isStr
    THEN IF d.name \in DstNames
         THEN [ok |-> TRUE, dst |-> d.name]
         ELSE [ok |-> FALSE, dst |-> "None"]
    ELSE [ok |-> TRUE, dst |-> d.name]

\* measurements.generate_measurement_matrix(POVM, n_qubits) : for 'proj' on one
\* qubit the six projectors on the +-x, +-y, +-z eigenstates, each weighted 1/3,
\* as Bloch vectors; an unknown key fails
ProjRow(axis, sign) ==
    [j \in 1..4 |-> IF j = 1 THEN <<1, 6>>
                    ELSE IF j = axis + 1 THEN <<sign, 6>> ELSE RZero]
MeasurementMatrix(POVM, n) ==
    IF POVM = "proj" /\ n = 1
    THEN [ok |-> TRUE,
          mat |-> <<ProjRow(1, 1), ProjRow(1, -1), ProjRow(2, 1), ProjRow(2, -1),
                    ProjRow(3, 1), ProjRow(3, -1)>>]
    ELSE [ok |-> FALSE, mat |-> <<>>]

POVMInputs == {"proj", "unknown"}

\* np.random.multinomial(n, probas) : the count vectors over outcomes 1..k that
\* sum to n and give nothing to an outcome of probability zero
RECURSIVE Multinomial(_, _, _)
Multinomial(n, probas, k) ==
    IF k = 0
    THEN (IF n = 0 THEN {<<>>} ELSE {})
    ELSE UNION {{Append(r, c) : r \in Multinomial(n - c, probas, k - 1)} :
                c \in (IF probas[k] = RZero THEN {0} ELSE 0..n)}

\* Tomograph.experiment, lines 36-38 : the matrix generated and the outcome
\* vectors that can be drawn, for each true state, scheme and count given
Probas(st, POVM_mat) == VecScale(MatVec(POVM_mat, st.bloch), Pow(2, st.dim))
Drawable ==
    [st \in StateInputs, POVM \in POVMInputs, n \in 0..(MaxWork - 1) |->
        LET gen == MeasurementMatrix(POVM, st.dim)
        IN  IF gen.ok THEN Multinomial(n, Probas(st, gen.mat), Len(gen.mat)) ELSE {}]

\* the accumulated data of a Tomograph
NoData == [experimented |-> FALSE, POVM_matrix |-> <<>>, results |-> <<>>, n_measurements |-> 0]
Tomo ==
    [experimented |-> experimented, POVM_matrix |-> POVM_matrix, results |-> results,
     n_measurements |-> n_measurements]

Fresh(n, new_matrix, drawn) ==
    [experimented |-> TRUE, POVM_matrix |-> new_matrix, results |-> drawn, n_measurements |-> n]

\* experiment whose warm start stores the new count instead of the sum
ExperimentCountNotSummed(t, n, new_matrix, drawn, warm_start) ==
    IF warm_start
    THEN IF ~t.experimented
         THEN [ok |-> FALSE, t |-> t]
         ELSE [ok |-> TRUE,
               t |-> [experimented |-> TRUE,
                      POVM_matrix |-> ArrDiv(VStack(ArrScale(t.POVM_matrix, t.n_measurements),
                                                    ArrScale(new_matrix, n)),
                                             t.n_measurements + n),
                      results |-> HStack(t.results, drawn),
                      n_measurements |-> n]]
    ELSE [ok |-> TRUE, t |-> Fresh(n, new_matrix, drawn)]

\* experiment whose warm start stacks the matrices without weights
ExperimentUnweighted(t, n, new_matrix, drawn, warm_start) ==
    IF warm_start
    THEN IF ~t.experimented
         THEN [ok |-> FALSE, t |-> t]
         ELSE [ok |-> TRUE,
               t |-> [experimented |-> TRUE,
                      POVM_matrix |-> VStack(t.POVM_matrix, new_matrix),
                      results |-> HStack(t.results, drawn),
                      n_measurements |-> t.n_measurements + n]]
    ELSE [ok |-> TRUE, t |-> Fresh(n, new_matrix, drawn)]

\* experiment that merges whenever data exist, whatever warm_start says
ExperimentAlwaysMerge(t, n, new_matrix, drawn, warm_start) ==
    IF t.experimented
    THEN [ok |-> TRUE,
          t |-> [experimented |-> TRUE,
                 POVM_matrix |-> ArrDiv(VStack(ArrScale(t.POVM_matrix, t.n_measurements),
                                               ArrScale(new_matrix, n)),
                                        t.n_measurements + n),
                 results |-> HStack(t.results, drawn),
                 n_measurements |-> t.n_measurements + n]]
    ELSE IF warm_start
    THEN [ok |-> FALSE, t |-> t]
    ELSE [ok |-> TRUE, t |-> Fresh(n, new_matrix, drawn)]

\* experiment whose warm start on a Tomograph without data stores directly
ExperimentFirstWarmStores(t, n, new_matrix, drawn, warm_start) ==
    IF warm_start /\ t.experimented
    THEN [ok |-> TRUE,
          t |-> [experimented |-> TRUE,
                 POVM_matrix |-> ArrDiv(VStack(ArrScale(t.POVM_matrix, t.n_measurements),
                                               ArrScale(new_matrix, n)),
                                        t.n_measurements + n),
                 results |-> HStack(t.results, drawn),
                 n_measurements |-> t.n_measurements + n]]
    ELSE [ok |-> TRUE, t |-> Fresh(n, new_matrix, drawn)]

\* Tomograph.experiment, lines 39-49, with the matrix generated and the outcomes drawn
ExperimentStore(t, n, new_matrix, drawn, warm_start) ==
    IF warm_start
    THEN IF ~t.experimented
         THEN [ok |-> FALSE, t |-> t]
         ELSE [ok |-> TRUE,
               t |-> [experimented |-> TRUE,
                      POVM_matrix |-> ArrDiv(VStack(ArrScale(t.POVM_matrix, t.n_measurements),
                                                    ArrScale(new_matrix, n)),
                                             t.n_measurements + n),
                      results |-> HStack(t.results, drawn),
                      n_measurements |-> t.n_measurements + n]]
    ELSE [ok |-> TRUE, t |-> Fresh(n, new_matrix, drawn)]

(***************************************************************************)
(* Estimates.  A coordinate of a returned Bloch vector is <<sign, square>>, *)
(* the real number sign * sqrt(square) with square a fraction: the rescaling *)
(* of the estimators multiplies by max_norm / norm, the square root of a    *)
(* fraction.  <<0, nan>> is nan.                                            *)
(***************************************************************************)
IsFinite(r) == r[2] # 0
AllFinite(v) == \A i \in 1..Len(v) : IsFinite(v[i])
MatFinite(M) == \A i \in 1..Len(M) : AllFinite(M[i])
\* a > b, for finite fractions
RGreater(a, b) == a[1] * b[2] > b[1] * a[2]

\* the square of la.norm(v, ord=2)
Norm2(v) == RSum([i \in 1..Len(v) |-> RMul(v[i], v[i])], Len(v))

Coord(r) == IF IsFinite(r) THEN <<Sign(r[1]), RMul(r, r)>> ELSE <<Sign(r[1]), r>>
Coords(v) == [i \in 1..Len(v) |-> Coord(v[i])]

\* v *= max_norm / la.norm(v, ord=2), max2 the square of max_norm
Rescale(v, max2) ==
    [i \in 1..Len(v) |-> <<Sign(v[i][1]), RDiv(RMul(RMul(v[i], v[i]), max2), Norm2(v))>>]

\* np.sqrt((2 ** dim - 1) / (4 ** dim)), squared
MaxNorm2(dim) == RNorm(Pow(2, dim) - 1, Pow(4, dim))

\* routines._left_inv(A) : the left pseudo-inverse (A^T A)^-1 A^T.  The columns
\* of the measurement matrices are orthogonal, so that A^T A is diagonal, with
\* the squared norms of the columns (Grams) on the diagonal; a matrix with a
\* nan or with a zero column has no left inverse and the routine raises.
Gram(A, j) == RSum([i \in 1..Len(A) |-> RMul(A[i][j], A[i][j])], Len(A))
RECURSIVE Grams(_, _)
Grams(A, k) == IF k = 0 THEN <<>> ELSE Append(Grams(A, k - 1), Gram(A, k))
LeftInv(A) ==
    LET g == Grams(A, Len(A[1]))
    IN  IF ~MatFinite(A) \/ \E j \in 1..Len(A[1]) : g[j] = RZero
        THEN [ok |-> FALSE, mat |-> <<>>]
        ELSE [ok |-> TRUE,
              mat |-> [j \in 1..Len(A[1]) |-> [i \in 1..Len(A) |-> RDiv(A[i][j], g[j])]]]

NoEstimate == [ok |-> FALSE, raw |-> <<>>, bloch |-> <<>>]
Estimate(raw, bloch) == [ok |-> TRUE, raw |-> raw, bloch |-> bloch]

\* the projection both estimators end with (lines 63-65 and 76-79); fixed is
\* the part of the vector left alone, v the part la.norm is taken of, which
\* raises on a nan or an inf (scipy's check_finite)
Project(fixed, v, dim, physical) ==
    IF ~physical
    THEN Estimate(fixed \o v, Coords(fixed \o v))
    ELSE IF ~AllFinite(v)
    THEN NoEstimate
    ELSE IF RGreater(Norm2(v), MaxNorm2(dim))
    THEN Estimate(fixed \o v, Coords(fixed) \o Rescale(v, MaxNorm2(dim)))
    ELSE Estimate(fixed \o v, Coords(fixed \o v))

\* Tomograph._point_estimate_lin
PointEstimateLin(t, dim, physical) ==
    LET total == IntSum(t.results, Len(t.results))
        frequencies == [i \in 1..Len(t.results) |-> RDiv(RInt(t.results[i]), RInt(total))]
        inv == LeftInv(t.POVM_matrix)
        bloch_vec == ArrDiv(<<MatVec(inv.mat, frequencies)>>, Pow(2, dim))[1]
    IN  IF ~inv.ok
        THEN NoEstimate
        ELSE Project(<<bloch_vec[1]>>, Tail(bloch_vec), dim, physical)

\* Qobj(SIGMA_I / 2).bloch[1:] : the maximally mixed state, all zero
X0(dim) == [i \in 1..(Pow(4, dim) - 1) |-> RZero]
NaNVec(dim) == [i \in 1..(Pow(4, dim) - 1) |-> RNaN]

\* scipy.optimize.minimize(self._neg_log_likelihood, x0, constraints, 'SLSQP').x :
\* the solver is free to end at any point, inside the constraint or not; on
\* data with a nan the objective is nan everywhere and the solver ends at x0
\* or at nan
OptimizerOutputs(t, dim) ==
    IF MatFinite(t.POVM_matrix)
    THEN {X0(dim),
          [X0(dim) EXCEPT ![1] = <<-1, 4>>],
          [i \in 1..(Pow(4, dim) - 1) |-> IF i <= 2 THEN <<3, 4>> ELSE RZero]}
    ELSE {X0(dim), NaNVec(dim)}

\* Tomograph._point_estimate_mle, x the point the solver ended at
PointEstimateMle(t, dim, physical, x) ==
    Project(<<RNorm(1, Pow(2, dim))>>, x, dim, physical)

\* what point_estimate did: the estimate or the error, and the data afterwards
Estimated(e, algo, t) ==
    [ok |-> e.ok, algo |-> algo, raw |-> e.raw, bloch |-> e.bloch, t |-> t]

\* point_estimate whose MLE branch returns without reading the data
PointEstimateMleNoData(t, dim, method, physical, x) ==
    IF method = "lin"
    THEN IF ~t.experimented THEN Estimated(NoEstimate, "lin", t)
         ELSE Estimated(PointEstimateLin(t, dim, physical), "lin", t)
    ELSE Estimated(PointEstimateMle(t, dim, physical, x), "mle", t)

\* point_estimate whose linear inversion turns the counts into frequencies in
\* place, by an integer division
PointEstimateInPlace(t, dim, method, physical, x) ==
    IF ~t.experimented
    THEN Estimated(NoEstimate, IF method = "lin" THEN "lin" ELSE "mle", t)
    ELSE IF method = "lin"
    THEN LET total == IntSum(t.results, Len(t.results))
         IN  Estimated(PointEstimateLin(t, dim, physical), "lin",
                       [t EXCEPT !.results =
                           [i \in 1..Len(@) |-> IF total = 0 THEN 0 ELSE @[i] \div total]])
    ELSE Estimated(PointEstimateMle(t, dim, physical, x), "mle", t)

\* Tomograph.point_estimate : the estimator run, or the error of reading data
\* that do not exist
PointEstimateOp(t, dim, method, physical, x) ==
    IF ~t.experimented
    THEN Estimated(NoEstimate, IF method = "lin" THEN "lin" ELSE "mle", t)
    ELSE IF method = "lin"
    THEN Estimated(PointEstimateLin(t, dim, physical), "lin", t)
    ELSE Estimated(PointEstimateMle(t, dim, physical, x), "mle", t)


\* the arguments of a call; prior tells whether the Tomograph was experimented
\* when the call was made, drawn is the outcome vector experiment drew
NoArgs ==
    [n |-> 0, POVM |-> "None", warm_start |-> FALSE, drawn |-> <<>>, prior |-> FALSE,
     method |-> "None", physical |-> FALSE, dst |-> CallableDst]
ExperimentArgs(n, POVM, warm_start, drawn, prior) ==
    [NoArgs EXCEPT !.n = n, !.POVM = POVM, !.warm_start = warm_start, !.drawn = drawn,
                   !.prior = prior]
EstimateArgs(method, physical, prior) ==
    [NoArgs EXCEPT !.method = method, !.physical = physical, !.prior = prior]
ConstructArgs(d, prior) == [NoArgs EXCEPT !.dst = d, !.prior = prior]

TNone == [kind |-> "none", algo |-> "None", raw |-> <<>>, bloch |-> <<>>]
TError == [kind |-> "error", algo |-> "None", raw |-> <<>>, bloch |-> <<>>]
TStored == [kind |-> "stored", algo |-> "None", raw |-> <<>>, bloch |-> <<>>]
\* the estimate returned; raw is the estimate before the projection
TEstimate(e) == [kind |-> "estimate", algo |-> e.algo, raw |-> e.raw, bloch |-> e.bloch]
TTomograph == [kind |-> "tomograph", algo |-> "None", raw |-> <<>>, bloch |-> <<>>]

LogEntry(n, POVM, drawn) == [n |-> n, POVM |-> POVM, drawn |-> drawn]

StoreData(t) ==
    /\ experimented' = t.experimented
    /\ POVM_matrix' = t.POVM_matrix
    /\ results' = t.results
    /\ n_measurements' = t.n_measurements

\* t = Tomograph(state, dst)
InitTomograph ==
    \E st \in StateInputs, d \in {StrDst("hs")} :
        /\ TomographInit(d).ok
        /\ state = st
        /\ dst = TomographInit(d).dst
        /\ experimented = FALSE
        /\ POVM_matrix = NoData.POVM_matrix
        /\ results = NoData.results
        /\ n_measurements = NoData.n_measurements
        /\ tLastOp = "init"
        /\ tArgs = NoArgs
        /\ tRet = TNone
        /\ log = <<>>

\* Tomograph(state, dst) once more : another object, the one at hand is left alone
Construct ==
    \E d \in DstInputs :
        /\ tLastOp' = "construct"
        /\ tArgs' = ConstructArgs(d, experimented)
        /\ tRet' = IF TomographInit(d).ok THEN TTomograph ELSE TError
        /\ UNCHANGED <<state, dst, experimented, POVM_matrix, results, n_measurements, log>>
        /\ UNCHANGED chanVars

\* t.experiment(n, POVM, warm_start)
Experiment ==
    \E n \in 0..(MaxWork - 1), POVM \in POVMInputs, warm_start \in BOOLEAN :
        LET gen == MeasurementMatrix(POVM, state.dim)
        IN  /\ POVM = "unknown" => n = 1
            /\ warm_start /\ experimented => Len(log) + n_measurements + 1 + n <= MaxWork
            /\ tLastOp' = "experiment"
            /\ UNCHANGED <<state, dst>>
            /\ UNCHANGED chanVars
            /\ IF ~gen.ok
               THEN /\ tArgs' = ExperimentArgs(n, POVM, warm_start, <<>>, experimented)
                    /\ tRet' = TError
                    /\ UNCHANGED <<experimented, POVM_matrix, results, n_measurements, log>>
               ELSE \E drawn \in Drawable[state, POVM, n] :
                        LET r == ExperimentStore(Tomo, n, gen.mat, drawn, warm_start)
                        IN  /\ tArgs' = ExperimentArgs(n, POVM, warm_start, drawn, experimented)
                            /\ tRet' = IF r.ok THEN TStored ELSE TError
                            /\ StoreData(r.t)
                            /\ log' = IF ~r.ok THEN log
                                      ELSE IF warm_start
                                      THEN Append(log, LogEntry(n, POVM, drawn))
                                      ELSE <<LogEntry(n, POVM, drawn)>>

MethodInputs == {"lin", "mle", "bayes"}

\* t.point_estimate(method, physical)
PointEstimate ==
    \E method \in MethodInputs, physical \in BOOLEAN :
        \E x \in (IF method = "lin" \/ ~experimented THEN {X0(state.dim)}
                  ELSE OptimizerOutputs(Tomo, state.dim)) :
            \E e \in {PointEstimateOp(Tomo, state.dim, method, physical, x)} :
                /\ tLastOp' = "point_estimate"
                /\ tArgs' = EstimateArgs(method, physical, experimented)
                /\ tRet' = IF e.ok THEN TEstimate(e) ELSE TError
                /\ StoreData(e.t)
                /\ UNCHANGED <<state, dst, log>>
                /\ UNCHANGED chanVars

NextTomograph ==
    \/ Construct
    \/ Experiment
    \/ PointEstimate

(***************************************************************************)
(* Specifications: a Channel in use, and a Tomograph in use                *)
(***************************************************************************)
IdleChannel ==
    /\ types = {"func"}
    /\ func = "id"
    /\ choi = NoMatrix
    /\ n_qubits = 1
    /\ lastOp = "init"
    /\ arg = NoMatrix
    /\ ret = NoReturn
    /\ invoked = {}
    /\ lastSet = GivenFunc("id")
    /\ nReads = 0
    /\ lastRead = NoMatrix

IdleTomograph ==
    /\ state = CHOOSE st \in StateInputs : TRUE
    /\ dst = "hs"
    /\ experimented = FALSE
    /\ POVM_matrix = NoData.POVM_matrix
    /\ results = NoData.results
    /\ n_measurements = NoData.n_measurements
    /\ tLastOp = "init"
    /\ tArgs = NoArgs
    /\ tRet = TNone
    /\ log = <<>>

InitSpecChannel == InitChannel /\ IdleTomograph

InitSpecTomograph == InitTomograph /\ IdleChannel

SpecChannel == InitSpecChannel /\ [][NextChannel]_vars

SpecTomograph == InitSpecTomograph /\ [][NextTomograph]_vars


(***************************************************************************)
(* Properties of the Channel                                               *)
(***************************************************************************)
\* The Choi matrix of f on n qubits, entry by entry: the block (a, b) of the
\* matrix is f applied to the single-entry operator E_ab.
ChoiOf(f, n) ==
    LET d == Pow(2, n)
    IN  [r \in 1..(d * d) |-> [c \in 1..(d * d) |->
            ApplyFunc(f, SingleEntry(d, ((r - 1) \div d) + 1, ((c - 1) \div d) + 1))
                .val[((r - 1) % d) + 1][((c - 1) % d) + 1]]]

\* The action on s of the linear map whose Choi matrix is C: the sum over
\* (a, b) of s[a][b] times the block (a, b) of C.
ChoiAction(C, n, s) ==
    LET d == Pow(2, n)
    IN  [k \in 1..d |-> [l \in 1..d |->
            CSum([ab \in 1..(d * d) |->
                     CMul(s[((ab - 1) \div d) + 1][((ab - 1) % d) + 1],
                          C[((ab - 1) \div d) * d + k][((ab - 1) % d) * d + l])],
                 d * d)]]

ValidTypes ==
    /\ types # {}
    /\ types \subseteq {"func", "choi"}
    /\ ret.kind = "channel" => ret.ch.types \in {{"func"}, {"choi"}}
    /\ lastOp = "set_func" => types = {"func"}
    /\ lastOp = "choi_assign" => types = {"choi"}

LazyReadOnlyAdds == lastOp' = "choi_read" => types' = types \cup {"choi"}

\* C1: in every reachable state the set of valid representations is not
\* empty; right after set_func it is {func}, right after a choi assignment it
\* is {choi}, and a choi read adds 'choi' and removes nothing.
C1_ValidRepresentations == []ValidTypes /\ [][LazyReadOnlyAdds]_vars

\* a choi read has just built the matrix from the function, which stays valid
C1_Witness == lastOp = "choi_read" /\ nReads = 1 /\ types = {"func", "choi"}

\* C2: after a choi assignment only the given matrix is valid, and transform
\* invokes no function and returns the action of that matrix; after set_func
\* the given function is valid, transform invokes it and returns its output,
\* and the first choi read invokes it and returns the Choi matrix of that
\* function, not the matrix stored before.
C2_RepresentationInvalidation ==
    /\ lastSet.rep = "choi" =>
        /\ types = {"choi"}
        /\ choi = lastSet.m
        /\ lastOp = "transform" =>
            /\ invoked = {}
            /\ ret = StateReturn(ChoiAction(lastSet.m, n_qubits, arg))
    /\ lastSet.rep = "func" =>
        /\ "func" \in types
        /\ func = lastSet.f
        /\ "choi" \in types <=> nReads > 0
        /\ lastOp = "transform" =>
            /\ invoked = {lastSet.f}
            /\ ret = IF ApplyFunc(lastSet.f, arg).ok
                     THEN StateReturn(ApplyFunc(lastSet.f, arg).val)
                     ELSE ErrorReturn
        /\ lastOp = "choi_read" /\ nReads = 1 =>
            /\ invoked = {lastSet.f}
            /\ ret.kind = "choi" => ret.mat = ChoiOf(lastSet.f, n_qubits)

\* a transform after a choi assignment on a channel that still stores a function
C2_Witness ==
    /\ lastSet.rep = "choi"
    /\ func # NoFunc
    /\ lastOp = "transform"
    /\ n_qubits = 1
    /\ arg = Generic(2)

SecondRead ==
    nReads >= 1 /\ lastOp' = "choi_read" =>
        /\ invoked' = {}
        /\ choi' = choi
        /\ types' = types
        /\ ret' = ChoiReturn(choi)
        /\ lastRead # NoMatrix => ret'.mat = lastRead

\* C3: a choi read that follows another getter call, with no set_func or choi
\* assignment in between, invokes no function, leaves the stored matrix and
\* the valid representations unchanged and returns the stored matrix, the one
\* the earlier read returned.
C3_ChoiReadIdempotent == [][SecondRead]_vars

\* the second read of a channel whose function is valid
C3_Witness == lastOp = "choi_read" /\ nReads = 2 /\ types = {"func", "choi"} /\ n_qubits = 1

\* C4: once the Choi matrix has been built from a linear function, the Choi
\* branch of transform on that matrix gives what the function gives, for
\* every state given.
C4_ChoiRoundTrip ==
    types = {"func", "choi"} /\ func \in LinearFuncs =>
        \A s \in InputStates(Pow(2, n_qubits)) :
            LET viaChoi == TransformOp([Ch EXCEPT !.types = {"choi"}], s)
            IN  /\ viaChoi.ok
                /\ viaChoi.invoked = {}
                /\ viaChoi.mat = ApplyFunc(func, s).val

\* the matrix has been built from i * transpose on one qubit
C4_Witness ==
    /\ types = {"func", "choi"}
    /\ func = "i_transpose"
    /\ n_qubits = 1
    /\ lastOp = "choi_read"
    /\ choi = ChoiOf("i_transpose", 1)


\* |Omega><Omega| for |Omega> = |00> + |11>, the maximally entangled state of
\* two qubits without its normalization 1/sqrt(2): trace 2
BellOperator ==
    [r \in 1..4 |-> [c \in 1..4 |-> IF r \in {1, 4} /\ c \in {1, 4} THEN COne ELSE CZero]]

IdentityOnOneQubit == lastSet = GivenFunc("id") /\ n_qubits = 1 /\ "choi" \in types

\* C12 (as amended): the Choi matrix of a Channel made from the identity
\* function with n_qubits = 1 is the sum over the single-entry operators E of
\* E (x) transform(E), which is the maximally entangled Bell-state operator
\* without normalization (trace 2), twice the normalized one.
C12_IdentityChoi ==
    IdentityOnOneQubit =>
        /\ choi = BellOperator
        /\ choi = ChoiOf("id", 1)
        /\ MatTrace(choi) = <<2, 0>>
        /\ lastOp = "choi_read" => ret = ChoiReturn(BellOperator)

\* the matrix of the identity on one qubit has just been built and returned
C12_Witness == IdentityOnOneQubit /\ lastOp = "choi_read" /\ nReads = 1 /\ invoked = {"id"}

\* C12 as claimed: that Choi matrix is the normalized Bell-state operator, of
\* trace 1, so that twice the matrix is |Omega><Omega|.
C12_Original ==
    IdentityOnOneQubit =>
        /\ MatScale(<<2, 0>>, choi) = BellOperator
        /\ choi = ChoiOf("id", 1)

IsPowerOf4(side) == \E n \in 0..side : Pow(4, n) = side

\* exactly one representation is valid: the function for a callable, the
\* matrix for an array
OneRepresentation(c, data) ==
    IF data.kind = "func"
    THEN c.types = {"func"} /\ c.func = data.f
    ELSE c.types = {"choi"} /\ c.choi = data.m /\ c.func = NoFunc

\* C13 (as amended): a constructor given a callable without n_qubits fails
\* with the error that n_qubits is compulsory, one given neither a callable
\* nor an array fails with the invalid-format error, and neither makes a
\* Channel; a constructor that succeeds leaves exactly one representation
\* valid, func with the n_qubits given for a callable, choi for an array, with
\* n_qubits = log2(side)/2 rounded down (log2(side)/2 itself when the side is
\* a power of 4).
C13_Construction ==
    /\ lastOp = "init" => Cardinality(types) = 1 /\ (types = {"choi"} <=> func = NoFunc)
    /\ lastOp = "construct" =>
        LET data == arg.data
            n == arg.n_qubits
        IN  /\ data.kind = "func" /\ n = NoQubits => ret = ValueErrorReturn(CompulsoryError)
            /\ data.kind = "other" => ret = ValueErrorReturn(FormatError)
            /\ data.kind = "func" /\ n # NoQubits =>
                /\ ret.kind = "channel"
                /\ OneRepresentation(ret.ch, data)
                /\ ret.ch.n_qubits = n
            /\ data.kind = "matrix" =>
                /\ ret.kind = "channel"
                /\ OneRepresentation(ret.ch, data)
                /\ Pow(4, ret.ch.n_qubits) <= Side(data.m)
                /\ Side(data.m) < Pow(4, ret.ch.n_qubits + 1)
                /\ IsPowerOf4(Side(data.m)) => Pow(4, ret.ch.n_qubits) = Side(data.m)

\* a constructor given a callable and no n_qubits has failed
C13_Witness ==
    /\ lastOp = "construct"
    /\ arg.data = FuncData("id")
    /\ arg.n_qubits = NoQubits
    /\ ret.kind = "ValueError"

\* C13 as claimed: for an array, n_qubits = log2(side)/2, that is
\* 4^n_qubits = side.
C13_Original ==
    lastOp = "construct" =>
        LET data == arg.data
            n == arg.n_qubits
        IN  /\ data.kind = "func" /\ n = NoQubits => ret = ValueErrorReturn(CompulsoryError)
            /\ data.kind = "other" => ret = ValueErrorReturn(FormatError)
            /\ data.kind = "func" /\ n # NoQubits =>
                /\ ret.kind = "channel"
                /\ OneRepresentation(ret.ch, data)
                /\ ret.ch.n_qubits = n
            /\ data.kind = "matrix" =>
                /\ ret.kind = "channel"
                /\ OneRepresentation(ret.ch, data)
                /\ Pow(4, ret.ch.n_qubits) = Side(data.m)

DerivedChannel ==
    lastOp' \in {"T", "H", "conj"} /\ ret'.kind = "channel" =>
        /\ ret'.ch.types = {"choi"}
        /\ ret'.ch.func = NoFunc
        /\ ret'.ch.choi = (CASE lastOp' = "T" -> MatT(choi')
                             [] lastOp' = "H" -> MatH(choi')
                             [] OTHER -> MatConj(choi'))
        /\ DerivedOp(ret'.ch, lastOp').ok
        /\ DerivedOp(ret'.ch, lastOp').new.choi = choi'
        /\ DerivedOp(ret'.ch, lastOp').new.types = {"choi"}
        /\ func' = func
        /\ n_qubits' = n_qubits
        /\ types' = types \cup {"choi"}
        /\ "choi" \in types => choi' = choi
        /\ "choi" \notin types => choi' = ChoiOf(func, n_qubits)

\* C14: T, H and conj each return a new Channel that holds the Choi
\* representation only, and the same operation on that Channel gives back the
\* Choi matrix of the original; the original keeps its function and its Choi
\* matrix, which is at most built and cached by the call.
C14_Involutions == [][DerivedChannel]_vars

\* H of a channel whose Choi matrix was built from i * transpose by the call
C14_Witness ==
    /\ lastOp = "H"
    /\ ret.kind = "channel"
    /\ types = {"func", "choi"}
    /\ func = "i_transpose"
    /\ n_qubits = 1
    /\ nReads = 1
    /\ ret.ch.choi # choi

\* a function that raises on one of the single-entry operators of side d
RaisesInBuild(f, n) ==
    \E k \in 1..Pow(4, n) : ~ApplyFunc(f, SingleEntries(Pow(2, n))[k]).ok

\* C15: a choi read during which the function raises leaves the valid
\* representations as they were, the function alone, and the next choi read
\* builds the matrix again (and so fails again) instead of returning the part
\* accumulated.
C15_FailedReadNotCached ==
    lastOp = "choi_read" /\ lastSet.rep = "func" /\ RaisesInBuild(lastSet.f, n_qubits) =>
        /\ ret = ErrorReturn
        /\ types = {"func"}

\* C16: the matrices given as Choi matrices having a side that is a power of
\* 4, a Channel whose Choi representation is valid stores a matrix of side
\* 4^n_qubits: after the constructor, a choi assignment, a build that follows
\* set_func, and in the Channels T, H and conj return.
C16_ChoiSide ==
    /\ "choi" \in types => Side(choi) = Pow(4, n_qubits)
    /\ ret.kind = "channel" /\ "choi" \in ret.ch.types /\ IsPowerOf4(Side(ret.ch.choi)) =>
            Side(ret.ch.choi) = Pow(4, ret.ch.n_qubits)

\* the matrix of one qubit has been built from the function set_func gave
C16_Witness ==
    /\ lastOp = "choi_read"
    /\ lastSet.rep = "func"
    /\ types = {"func", "choi"}
    /\ n_qubits = 1
    /\ Side(choi) = 4
    /\ ret.kind = "choi"


(***************************************************************************)
(* Properties of the Tomograph                                             *)
(***************************************************************************)
MatrixOf(POVM) == MeasurementMatrix(POVM, state.dim).mat
ArrTimes(M, r) == [i \in 1..Len(M) |-> [j \in 1..Len(M[i]) |-> RMul(M[i][j], r)]]
NaNRows(M) == [i \in 1..Len(M) |-> [j \in 1..Len(M[i]) |-> RNaN]]

\* m_1 + ... + m_k over the calls of the log
RECURSIVE CountUpTo(_)
CountUpTo(k) == IF k = 0 THEN 0 ELSE CountUpTo(k - 1) + log[k].n

\* the outcome vectors of calls 1..k, in call order
RECURSIVE DrawnUpTo(_)
DrawnUpTo(k) == IF k = 0 THEN <<>> ELSE DrawnUpTo(k - 1) \o log[k].drawn

\* the matrices of calls 1..k in call order, that of call i weighted by
\* m_i / (m_1 + ... + m_K), K the number of calls; one call alone has weight 1
WeightOf(i) ==
    IF Len(log) = 1 THEN RInt(1) ELSE RDiv(RInt(log[i].n), RInt(CountUpTo(Len(log))))
RECURSIVE WeightedUpTo(_)
WeightedUpTo(k) ==
    IF k = 0 THEN <<>>
    ELSE WeightedUpTo(k - 1) \o ArrTimes(MatrixOf(log[k].POVM), WeightOf(k))

\* the same, with the rows of the calls merged at a combined count of zero nan
Max(a, b) == IF a >= b THEN a ELSE b
ZeroMerged(i) == Len(log) >= 2 /\ CountUpTo(Max(i, 2)) = 0
RECURSIVE AccumulatedUpTo(_)
AccumulatedUpTo(k) ==
    IF k = 0 THEN <<>>
    ELSE AccumulatedUpTo(k - 1)
            \o (IF ZeroMerged(k) THEN NaNRows(MatrixOf(log[k].POVM))
                ELSE ArrTimes(MatrixOf(log[k].POVM), WeightOf(k)))

\* C5: once experiment has succeeded, the outcome counts sum to
\* n_measurements and there is one count per row of the accumulated matrix.
C5_ExperimentCounts ==
    experimented =>
        /\ IntSum(results, Len(results)) = n_measurements
        /\ Len(results) = Len(POVM_matrix)
        /\ n_measurements = CountUpTo(Len(log))

\* three calls have been merged, the second one with a measurement
C5_Witness ==
    /\ experimented
    /\ Len(log) = 3
    /\ n_measurements = 1
    /\ log[2].n = 1
    /\ tLastOp = "experiment"
    /\ tArgs.warm_start

WarmMerge ==
    tLastOp' = "experiment" /\ tArgs'.warm_start /\ tRet' = TStored =>
        LET n == n_measurements
            m == tArgs'.n
        IN  /\ POVM_matrix' =
                VStack(ArrTimes(POVM_matrix, RDiv(RInt(n), RInt(n + m))),
                       ArrTimes(MatrixOf(tArgs'.POVM), RDiv(RInt(m), RInt(n + m))))
            /\ results' = HStack(results, tArgs'.drawn)
            /\ n_measurements' = n + m

MergedInCallOrder ==
    experimented =>
        /\ results = DrawnUpTo(Len(log))
        /\ n_measurements = CountUpTo(Len(log))
        /\ POVM_matrix = AccumulatedUpTo(Len(log))
        /\ (Len(log) >= 2 => log[1].n + log[2].n > 0) => POVM_matrix = WeightedUpTo(Len(log))

\* C6 (as amended): a warm start on data (M, r, n) with m_new measurements
\* stores the rows of M weighted by n/(n+m_new) followed by the new rows
\* weighted by m_new/(n+m_new), appends the new outcomes to r and sets the
\* count to n+m_new; hence after a fresh call and warm starts with counts
\* m_1..m_k, m_1 + m_2 > 0, the rows of call i are its matrix weighted by
\* m_i/(m_1+...+m_k), in call order, as are the outcome blocks; the rows of
\* the calls merged at a combined count of zero are nan.
C6_WeightedMerge == [][WarmMerge]_vars /\ []MergedInCallOrder

\* a warm start with a measurement on data with a measurement: weights 1/2
C6_Witness ==
    /\ tLastOp = "experiment"
    /\ tArgs.warm_start
    /\ tRet = TStored
    /\ Len(log) = 2
    /\ log[1].n = 1
    /\ log[2].n = 1
    /\ POVM_matrix[1][1] = <<1, 12>>

\* C6 as claimed: after a fresh call and any warm starts, the rows of call i
\* are its matrix weighted by m_i/(m_1+...+m_k).
C6_Original ==
    experimented =>
        /\ results = DrawnUpTo(Len(log))
        /\ n_measurements = CountUpTo(Len(log))
        /\ POVM_matrix = WeightedUpTo(Len(log))

\* C7: a successful experiment without warm start on a Tomograph that holds
\* data leaves exactly the new matrix, the new outcomes and the new count.
C7_FreshReplaces ==
    tLastOp = "experiment" /\ ~tArgs.warm_start /\ tArgs.prior /\ tRet = TStored =>
        /\ experimented
        /\ POVM_matrix = MatrixOf(tArgs.POVM)
        /\ results = tArgs.drawn
        /\ n_measurements = tArgs.n
        /\ IntSum(results, Len(results)) = tArgs.n

\* a fresh experiment with one measurement on a Tomograph that held data
C7_Witness ==
    /\ tLastOp = "experiment"
    /\ ~tArgs.warm_start
    /\ tArgs.prior
    /\ tRet = TStored
    /\ n_measurements = 1

FirstCall ==
    tLastOp = "experiment" /\ ~tArgs.prior /\ MeasurementMatrix(tArgs.POVM, state.dim).ok

StoredDirectly ==
    /\ tRet = TStored
    /\ experimented
    /\ POVM_matrix = MatrixOf(tArgs.POVM)
    /\ results = tArgs.drawn
    /\ n_measurements = tArgs.n

\* C8 (as amended): a first experiment call without warm start stores the
\* matrix, the outcomes and the count directly; a first call with warm start
\* fails and leaves the Tomograph without data.
C8_FirstCall ==
    FirstCall =>
        IF tArgs.warm_start
        THEN tRet = TError /\ Tomo = NoData /\ log = <<>>
        ELSE StoredDirectly

\* a first call with warm start has failed
C8_Witness ==
    /\ FirstCall
    /\ tArgs.warm_start
    /\ tArgs.n = 1
    /\ tRet = TError

\* C8 as claimed: a first call stores directly whatever warm_start is.
C8_Original == FirstCall => StoredDirectly

TwoStates ==
    /\ ~experimented /\ tLastOp' = "point_estimate" => tRet' = TError /\ ~experimented'
    /\ ~experimented /\ experimented' => tLastOp' = "experiment" /\ tRet' = TStored
    /\ experimented => experimented'

\* C9: without data point_estimate fails, with either method, and leaves the
\* Tomograph without data; only a successful experiment gives it data, and
\* no operation takes the data away.
C9_TwoStates == [][TwoStates]_vars

\* point_estimate with method 'mle' has failed on a Tomograph without data
C9_Witness ==
    /\ tLastOp = "point_estimate"
    /\ tArgs.method = "mle"
    /\ tRet = TError
    /\ ~experimented

\* C10: point_estimate with a method other than 'lin' and 'mle' fails, and so
\* does the constructor with a dst name other than 'hs', 'trace', 'if'.
C10_UnknownKeysFail ==
    /\ tLastOp = "point_estimate" /\ tArgs.method \notin {"lin", "mle"} => tRet = TError
    /\ tLastOp = "construct" /\ tArgs.dst.isStr /\ tArgs.dst.name \notin DstNames =>
            tRet = TError

\* the squared norm of the coordinates of a returned Bloch vector but the first
BlochNorm2(b) == RSum([i \in 1..(Len(b) - 1) |-> b[i + 1][2]], Len(b) - 1)

\* b points where the raw vector does: the signs agree and the squares are in
\* the same proportion
SameDirection(b, raw) ==
    /\ \A i \in 1..Len(raw) : b[i][1] = Sign(raw[i][1])
    /\ \A i, j \in 1..Len(raw) :
        RMul(b[i][2], RMul(raw[j], raw[j])) = RMul(b[j][2], RMul(raw[i], raw[i]))

\* C11: on a Tomograph with data, point_estimate with physical=True and method
\* 'lin' or 'mle' returns a Bloch vector whose coordinates but the first have
\* a norm of at most sqrt((2^n - 1)/4^n): the raw estimate itself when it is
\* inside the bound, and otherwise the raw estimate rescaled onto the bound,
\* its direction kept.
C11_PhysicalEstimate ==
    tLastOp = "point_estimate" /\ tArgs.prior /\ tArgs.physical
            /\ tArgs.method \in {"lin", "mle"} =>
        /\ tRet.kind = "estimate"
        /\ AllFinite(Tail(tRet.raw))
        /\ ~RGreater(BlochNorm2(tRet.bloch), MaxNorm2(state.dim))
        /\ IF RGreater(Norm2(Tail(tRet.raw)), MaxNorm2(state.dim))
           THEN /\ BlochNorm2(tRet.bloch) = MaxNorm2(state.dim)
                /\ SameDirection(Tail(tRet.bloch), Tail(tRet.raw))
                /\ tRet.bloch[1] = Coord(tRet.raw[1])
           ELSE tRet.bloch = Coords(tRet.raw)

PointEstimateFrame ==
    tLastOp' = "point_estimate" =>
        UNCHANGED <<state, dst, experimented, POVM_matrix, results, n_measurements>>

\* C17: point_estimate, with either method and physical true or false, leaves
\* the accumulated measurement matrix, the outcome counts and n_measurements
\* (and the true state) as they were, whether it returns an estimate or fails.
C17_PointEstimateFrame == [][PointEstimateFrame]_vars

\* a linear-inversion estimate of two measurements has been rescaled
C17_Witness ==
    /\ tLastOp = "point_estimate"
    /\ tArgs.method = "lin"
    /\ tArgs.physical
    /\ tRet.kind = "estimate"
    /\ n_measurements = 2
    /\ tRet.bloch # Coords(tRet.raw)
    /\ BlochNorm2(tRet.bloch) = MaxNorm2(state.dim)


=============================================================================
